---- MODULE Spec2Model ----
(***************************************************************************)
(* Model of the per-frame simulation of src/game.py ("Mini Smash"): two    *)
(* fighters, input application, physics integration, the attack timers,    *)
(* hit detection and resolution, and the round reset.                      *)
(*                                                                         *)
(* Numbers.  x, vx and the timers only ever hold whole numbers in the      *)
(* program and are integers here.  y and vy are multiples of 0.2 (GRAVITY  *)
(* is 0.8, JUMP_FORCE 16, KNOCKBACK_Y 6); they are kept in fixed point, in *)
(* units of 1/Scale pixel, with exact decimal arithmetic.  int() of the    *)
(* program (truncation toward zero, used by Fighter.rect and               *)
(* get_attack_rect) is Trunc.                                              *)
(*                                                                         *)
(* One iteration of the main loop is four steps, in the order of the code: *)
(* HandleInput (clock.tick, key snapshot, handle_input for both players),  *)
(* ApplyPhysics (apply_physics for both), Combat (the attacker/defender    *)
(* loop) and RoundCheck (the health test and reset_game).  pc names the    *)
(* step that runs next.                                                    *)
(*                                                                         *)
(* Inputs.  The frame time and the key snapshot of an iteration are chosen *)
(* by the environment.  scene fixes what the two players do in a run (see  *)
(* DuelKeys, BrawlKeys, RetreatKeys, PaceKeys); every run starts from the state      *)
(* main() builds, 450 pixels apart.  hits, ended and pre are history       *)
(* variables: they record what the code did and feed nothing back.         *)
(***************************************************************************)
EXTENDS Integers, FiniteSets, Sequences, TLC

\* ---------------------------------------------------------------- constants
WIDTH == 900
HEIGHT == 500
FLOOR_Y == HEIGHT - 80
Scale == 5                 \* y and vy are held in 1/Scale pixel
GRAVITY == 4               \* 0.8 pixel per tick, in 1/Scale pixel
JUMP_FORCE == 16
MOVE_SPEED == 6
KNOCKBACK_X == 10
KNOCKBACK_Y == 6
ATTACK_DURATION == 200
ATTACK_COOLDOWN == 400
ATTACK_DAMAGE == 12
FIGHTER_WIDTH == 60        \* width=60 of both Fighter(...) calls
FIGHTER_HEIGHT == 80       \* height=80 of both Fighter(...) calls
ATTACK_OFFSET == 30        \* offset in get_attack_rect
ATTACK_WIDTH == 50         \* attack_width in get_attack_rect
ROUND_DELAY == 800         \* pygame.time.delay(800) before reset_game

Players == {1, 2}
Other(i) == 3 - i

\* ---------------------------------------------------------------- helpers
Max(a, b) == IF a >= b THEN a ELSE b
Min(a, b) == IF a <= b THEN a ELSE b

\* int(v) for v held in 1/Scale units: truncation toward zero.
Trunc(v) == IF v >= 0 THEN v \div Scale ELSE -((-v) \div Scale)

\* Variant of clamp that forgets the lower limit.
clamp_NoMin(value, min_value, max_value) == Min(value, max_value)

clamp(value, min_value, max_value) == Max(min_value, Min(value, max_value))

\* pygame.Rect as a record; y is already truncated to whole pixels.
Rect(x, y, w, h) == [x |-> x, y |-> y, w |-> w, h |-> h]

\* Fighter.rect: pygame.Rect(int(x), int(y), width, height).
BodyRect(p) == Rect(p.x, Trunc(p.y), FIGHTER_WIDTH, FIGHTER_HEIGHT)

\* pygame.Rect.colliderect: strict overlap on both axes.
colliderect(a, b) ==
    /\ a.x < b.x + b.w
    /\ a.x + a.w > b.x
    /\ a.y < b.y + b.h
    /\ a.y + a.h > b.y

\* ---------------------------------------------------------------- Fighter
\* The dataclass as constructed in main(), before reset_game.
Constructed(i) ==
    [ x |-> IF i = 1 THEN WIDTH \div 4 ELSE (3 * WIDTH) \div 4,
      y |-> (FLOOR_Y - 80) * Scale,
      facing |-> 1, vx |-> 0, vy |-> 0, on_ground |-> FALSE,
      attack_timer |-> 0, cooldown_timer |-> 0, attack_hit |-> FALSE,
      health |-> 100 ]

\* Start position handed to Fighter.reset by reset_game.
StartX(i) == (IF i = 1 THEN WIDTH \div 4 ELSE (3 * WIDTH) \div 4) - FIGHTER_WIDTH \div 2
StartY == (FLOOR_Y - FIGHTER_HEIGHT) * Scale

\* Variant of reset that leaves facing as it was.
reset_KeepFacing(p, sx, sy) ==
    [ p EXCEPT !.x = sx, !.y = sy, !.vx = 0, !.vy = 0, !.on_ground = FALSE,
               !.attack_timer = 0, !.cooldown_timer = 0, !.attack_hit = FALSE,
               !.health = 100 ]

\* Variant of reset that leaves the velocity as it was.
reset_KeepVelocity(p, sx, sy) ==
    [ p EXCEPT !.x = sx, !.y = sy, !.on_ground = FALSE,
               !.attack_timer = 0, !.cooldown_timer = 0, !.attack_hit = FALSE,
               !.health = 100, !.facing = 1 ]

\* Fighter.reset(start_pos)
reset(p, sx, sy) ==
    [ p EXCEPT !.x = sx, !.y = sy, !.vx = 0, !.vy = 0, !.on_ground = FALSE,
               !.attack_timer = 0, !.cooldown_timer = 0, !.attack_hit = FALSE,
               !.health = 100, !.facing = 1 ]

\* reset_game(p1, p2)
reset_game(fs) == [ i \in Players |-> reset(fs[i], StartX(i), StartY) ]

\* ---------------------------------------------------------------- input
NoKeys == [left |-> FALSE, right |-> FALSE, jump |-> FALSE, attack |-> FALSE]

\* Variant of the attack-start test that ignores the cooldown.
CanStartAttack_NoCooldown(p, k) == k.attack /\ p.attack_timer <= 0

\* The attack-start test of handle_input.
CanStartAttack(p, k) == k.attack /\ p.attack_timer <= 0 /\ p.cooldown_timer <= 0

\* Variant of handle_input that does not zero vx before reading the keys.
handle_input_KeepVx(p, k) ==
    LET pl == IF k.left THEN [ p EXCEPT !.vx = -MOVE_SPEED, !.facing = -1 ] ELSE p
        pr == IF k.right THEN [ pl EXCEPT !.vx = MOVE_SPEED, !.facing = 1 ] ELSE pl
        pj == IF k.jump /\ pr.on_ground
              THEN [ pr EXCEPT !.vy = -JUMP_FORCE * Scale, !.on_ground = FALSE ]
              ELSE pr
    IN  IF CanStartAttack(pj, k)
        THEN [ pj EXCEPT !.attack_timer = ATTACK_DURATION,
                          !.cooldown_timer = ATTACK_COOLDOWN,
                          !.attack_hit = FALSE ]
        ELSE pj

\* Variant of handle_input that tests right only when left is not held.
handle_input_LeftWins(p, k) ==
    LET p0 == [ p EXCEPT !.vx = 0 ]
        pr == IF k.left THEN [ p0 EXCEPT !.vx = -MOVE_SPEED, !.facing = -1 ]
              ELSE IF k.right THEN [ p0 EXCEPT !.vx = MOVE_SPEED, !.facing = 1 ]
              ELSE p0
        pj == IF k.jump /\ pr.on_ground
              THEN [ pr EXCEPT !.vy = -JUMP_FORCE * Scale, !.on_ground = FALSE ]
              ELSE pr
    IN  IF CanStartAttack(pj, k)
        THEN [ pj EXCEPT !.attack_timer = ATTACK_DURATION,
                          !.cooldown_timer = ATTACK_COOLDOWN,
                          !.attack_hit = FALSE ]
        ELSE pj

\* Variant of handle_input whose jump does not look at on_ground.
handle_input_JumpInAir(p, k) ==
    LET p0 == [ p EXCEPT !.vx = 0 ]
        pl == IF k.left THEN [ p0 EXCEPT !.vx = -MOVE_SPEED, !.facing = -1 ] ELSE p0
        pr == IF k.right THEN [ pl EXCEPT !.vx = MOVE_SPEED, !.facing = 1 ] ELSE pl
        pj == IF k.jump
              THEN [ pr EXCEPT !.vy = -JUMP_FORCE * Scale, !.on_ground = FALSE ]
              ELSE pr
    IN  IF CanStartAttack(pj, k)
        THEN [ pj EXCEPT !.attack_timer = ATTACK_DURATION,
                          !.cooldown_timer = ATTACK_COOLDOWN,
                          !.attack_hit = FALSE ]
        ELSE pj

\* handle_input(fighter, keys); k holds the fighter's four bound keys.
handle_input(p, k) ==
    LET p0 == [ p EXCEPT !.vx = 0 ]
        pl == IF k.left THEN [ p0 EXCEPT !.vx = -MOVE_SPEED, !.facing = -1 ] ELSE p0
        pr == IF k.right THEN [ pl EXCEPT !.vx = MOVE_SPEED, !.facing = 1 ] ELSE pl
        pj == IF k.jump /\ pr.on_ground
              THEN [ pr EXCEPT !.vy = -JUMP_FORCE * Scale, !.on_ground = FALSE ]
              ELSE pr
    IN  IF CanStartAttack(pj, k)
        THEN [ pj EXCEPT !.attack_timer = ATTACK_DURATION,
                          !.cooldown_timer = ATTACK_COOLDOWN,
                          !.attack_hit = FALSE ]
        ELSE pj

\* ---------------------------------------------------------------- physics
\* Variant of apply_physics that stops the fall at the floor without setting
\* on_ground.
apply_physics_NeverGrounded(p, dt_ms) ==
    LET x1 == p.x + p.vx
        vy1 == p.vy + GRAVITY
        y1 == p.y + vy1
        landed == y1 + FIGHTER_HEIGHT * Scale >= FLOOR_Y * Scale
        at1 == Max(0, p.attack_timer - dt_ms)
        cd1 == Max(0, p.cooldown_timer - dt_ms)
    IN  [ p EXCEPT !.x = clamp(x1, 20, WIDTH - FIGHTER_WIDTH - 20),
                   !.y = IF landed THEN (FLOOR_Y - FIGHTER_HEIGHT) * Scale ELSE y1,
                   !.vy = IF landed THEN 0 ELSE vy1,
                   !.on_ground = landed /\ p.on_ground,
                   !.attack_timer = at1,
                   !.cooldown_timer = cd1,
                   !.attack_hit = IF at1 = 0 THEN FALSE ELSE @ ]

\* Variant of apply_physics whose cooldown runs only once the attack is over.
apply_physics_CooldownAfterAttack(p, dt_ms) ==
    LET x1 == p.x + p.vx
        vy1 == p.vy + GRAVITY
        y1 == p.y + vy1
        landed == y1 + FIGHTER_HEIGHT * Scale >= FLOOR_Y * Scale
        at1 == Max(0, p.attack_timer - dt_ms)
        cd1 == IF p.attack_timer > 0 THEN p.cooldown_timer
               ELSE Max(0, p.cooldown_timer - dt_ms)
    IN  [ p EXCEPT !.x = clamp(x1, 20, WIDTH - FIGHTER_WIDTH - 20),
                   !.y = IF landed THEN (FLOOR_Y - FIGHTER_HEIGHT) * Scale ELSE y1,
                   !.vy = IF landed THEN 0 ELSE vy1,
                   !.on_ground = landed,
                   !.attack_timer = at1,
                   !.cooldown_timer = cd1,
                   !.attack_hit = IF at1 = 0 THEN FALSE ELSE @ ]

\* Variant of apply_physics that leaves attack_hit as it is.
apply_physics_KeepHit(p, dt_ms) ==
    LET x1 == p.x + p.vx
        vy1 == p.vy + GRAVITY
        y1 == p.y + vy1
        landed == y1 + FIGHTER_HEIGHT * Scale >= FLOOR_Y * Scale
        at1 == Max(0, p.attack_timer - dt_ms)
        cd1 == Max(0, p.cooldown_timer - dt_ms)
    IN  [ p EXCEPT !.x = clamp(x1, 20, WIDTH - FIGHTER_WIDTH - 20),
                   !.y = IF landed THEN (FLOOR_Y - FIGHTER_HEIGHT) * Scale ELSE y1,
                   !.vy = IF landed THEN 0 ELSE vy1,
                   !.on_ground = landed,
                   !.attack_timer = at1,
                   !.cooldown_timer = cd1 ]

\* Variant of apply_physics that ends the cooldown together with the attack.
apply_physics_CooldownEndsWithAttack(p, dt_ms) ==
    LET x1 == p.x + p.vx
        vy1 == p.vy + GRAVITY
        y1 == p.y + vy1
        landed == y1 + FIGHTER_HEIGHT * Scale >= FLOOR_Y * Scale
        at1 == Max(0, p.attack_timer - dt_ms)
        cd1 == IF at1 = 0 THEN 0 ELSE Max(0, p.cooldown_timer - dt_ms)
    IN  [ p EXCEPT !.x = clamp(x1, 20, WIDTH - FIGHTER_WIDTH - 20),
                   !.y = IF landed THEN (FLOOR_Y - FIGHTER_HEIGHT) * Scale ELSE y1,
                   !.vy = IF landed THEN 0 ELSE vy1,
                   !.on_ground = landed,
                   !.attack_timer = at1,
                   !.cooldown_timer = cd1,
                   !.attack_hit = IF at1 = 0 THEN FALSE ELSE @ ]

\* apply_physics(fighter, dt_ms)
apply_physics(p, dt_ms) ==
    LET x1 == p.x + p.vx
        vy1 == p.vy + GRAVITY
        y1 == p.y + vy1
        landed == y1 + FIGHTER_HEIGHT * Scale >= FLOOR_Y * Scale
        at1 == Max(0, p.attack_timer - dt_ms)
        cd1 == Max(0, p.cooldown_timer - dt_ms)
    IN  [ p EXCEPT !.x = clamp(x1, 20, WIDTH - FIGHTER_WIDTH - 20),
                   !.y = IF landed THEN (FLOOR_Y - FIGHTER_HEIGHT) * Scale ELSE y1,
                   !.vy = IF landed THEN 0 ELSE vy1,
                   !.on_ground = landed,
                   !.attack_timer = at1,
                   !.cooldown_timer = cd1,
                   !.attack_hit = IF at1 = 0 THEN FALSE ELSE @ ]

\* ---------------------------------------------------------------- combat
\* Variant of get_attack_rect whose left-facing box lies wholly left of x - offset.
get_attack_rect_LeftFar(p) ==
    IF p.attack_timer <= 0
    THEN [some |-> FALSE, r |-> Rect(0, 0, 0, 0)]
    ELSE [some |-> TRUE,
          r |-> Rect(IF p.facing = 1
                     THEN p.x + FIGHTER_WIDTH + ATTACK_OFFSET - ATTACK_WIDTH
                     ELSE p.x - ATTACK_OFFSET - ATTACK_WIDTH,
                     Trunc(p.y + 5 * Scale),
                     ATTACK_WIDTH, FIGHTER_HEIGHT - 10)]

\* Variant of get_attack_rect whose box starts at the leading edge of the body.
get_attack_rect_FromEdge(p) ==
    IF p.attack_timer <= 0
    THEN [some |-> FALSE, r |-> Rect(0, 0, 0, 0)]
    ELSE [some |-> TRUE,
          r |-> Rect(IF p.facing = 1
                     THEN p.x + FIGHTER_WIDTH
                     ELSE p.x - ATTACK_WIDTH,
                     Trunc(p.y + 5 * Scale),
                     ATTACK_WIDTH, FIGHTER_HEIGHT - 10)]

\* get_attack_rect(fighter): a record with some = FALSE stands for None.
get_attack_rect(p) ==
    IF p.attack_timer <= 0
    THEN [some |-> FALSE, r |-> Rect(0, 0, 0, 0)]
    ELSE [some |-> TRUE,
          r |-> Rect(IF p.facing = 1
                     THEN p.x + FIGHTER_WIDTH + ATTACK_OFFSET - ATTACK_WIDTH
                     ELSE p.x - ATTACK_OFFSET,
                     Trunc(p.y + 5 * Scale),
                     ATTACK_WIDTH, FIGHTER_HEIGHT - 10)]

\* Variant of process_hit that also interrupts the defender's own attack.
process_hit_Interrupts(att, def) ==
    [ def EXCEPT !.health = Max(0, def.health - ATTACK_DAMAGE),
                 !.vx = KNOCKBACK_X * att.facing,
                 !.vy = -KNOCKBACK_Y * Scale,
                 !.attack_timer = 0 ]

\* Variant of process_hit without the floor of 0 on health.
process_hit_NoFloor(att, def) ==
    [ def EXCEPT !.health = def.health - ATTACK_DAMAGE,
                 !.vx = KNOCKBACK_X * att.facing,
                 !.vy = -KNOCKBACK_Y * Scale ]

\* Variant of process_hit that adds the knockback to the defender's velocity.
process_hit_Additive(att, def) ==
    [ def EXCEPT !.health = Max(0, def.health - ATTACK_DAMAGE),
                 !.vx = @ + KNOCKBACK_X * att.facing,
                 !.vy = @ - KNOCKBACK_Y * Scale ]

\* process_hit(attacker, defender): the defender after the hit.
process_hit(att, def) ==
    [ def EXCEPT !.health = Max(0, def.health - ATTACK_DAMAGE),
                 !.vx = KNOCKBACK_X * att.facing,
                 !.vy = -KNOCKBACK_Y * Scale ]

\* Variant of the hit test that does not look at attack_hit.
Lands_IgnoreFlag(att, def) ==
    LET ar == get_attack_rect(att)
    IN  ar.some /\ colliderect(ar.r, BodyRect(def))

\* The test of one pass of the combat loop: hitbox present, flag clear, overlap.
Lands(att, def) ==
    LET ar == get_attack_rect(att)
    IN  ar.some /\ ~att.attack_hit /\ colliderect(ar.r, BodyRect(def))

\* One pass of the combat loop for the ordered pair (a, d).
Resolve(fs, a, d) ==
    IF Lands(fs[a], fs[d])
    THEN [ fs EXCEPT ![a] = [ fs[a] EXCEPT !.attack_hit = TRUE ],
                     ![d] = process_hit(fs[a], fs[d]) ]
    ELSE fs

\* ---------------------------------------------------------------- state
VARIABLES
    f,          \* f[1], f[2]: player1 and player2
    pc,         \* "input", "physics", "combat", "round" or "done"
    dt_ms,      \* clock.tick(FPS) of the running iteration (0 once consumed)
    keys,       \* keys[i]: the key snapshot as bound to player i (NoKeys once consumed)
    hits,       \* history: hits[i] = process_hit calls by attacker i in its running activation
    ended,      \* history: how the latest iteration ended: "none", "plain" or "reset"
    pre,        \* history: while pc = "round", the fighters as they entered the combat loop
    scene       \* environment: what the two players do in this run, a member of Scenes

vars == <<f, pc, dt_ms, keys, hits, ended, pre, scene>>

Idle == [ i \in Players |-> NoKeys ]

Scenes == {"duel", "brawl", "retreat", "pace"}

\* Value of pre outside pc = "round".
NoPre == reset_game([ i \in Players |-> Constructed(i) ])

\* main() up to the loop: both fighters constructed, then reset_game.
Init ==
    /\ f = reset_game([ i \in Players |-> Constructed(i) ])
    /\ pc = "input"
    /\ dt_ms = 0
    /\ keys = Idle
    /\ hits = [ i \in Players |-> 0 ]
    /\ ended = "none"
    /\ pre = NoPre
    /\ scene \in Scenes

\* Loop head: dt_ms = clock.tick(FPS); keys = get_pressed(); handle_input for both.
HandleInput(k, d) ==
    /\ pc = "input"
    /\ f' = [ i \in Players |-> handle_input(f[i], k[i]) ]
    /\ hits' = [ i \in Players |-> IF CanStartAttack(f[i], k[i]) THEN 0 ELSE hits[i] ]
    /\ dt_ms' = d
    /\ keys' = k
    /\ ended' = "none"
    /\ pc' = "physics"
    /\ UNCHANGED <<pre, scene>>

\* apply_physics(player1, dt_ms); apply_physics(player2, dt_ms)
ApplyPhysics ==
    /\ pc = "physics"
    /\ f' = [ i \in Players |-> apply_physics(f[i], dt_ms) ]
    /\ hits' = [ i \in Players |-> IF f'[i].attack_timer = 0 THEN 0 ELSE hits[i] ]
    /\ dt_ms' = 0
    /\ keys' = Idle
    /\ pc' = "combat"
    /\ UNCHANGED <<ended, pre, scene>>

\* Variant of the combat loop that leaves the loop after the first hit.
CombatResult_StopAfterFirstHit(fs) ==
    IF Lands(fs[1], fs[2]) THEN Resolve(fs, 1, 2) ELSE Resolve(fs, 2, 1)

\* for attacker, defender in ((player1, player2), (player2, player1)): ...
\* The second pass runs on the fighters the first pass left (bound through a
\* singleton set, so that the first pass is computed once).
CombatResult(fs) ==
    CHOOSE r \in { Resolve(g, 2, 1) : g \in { Resolve(fs, 1, 2) } } : TRUE

Combat ==
    /\ pc = "combat"
    /\ f' = CombatResult(f)
    /\ \E g \in { Resolve(f, 1, 2) } :
          hits' = [ hits EXCEPT ![1] = IF Lands(f[1], f[2]) THEN @ + 1 ELSE @,
                                ![2] = IF Lands(g[2], g[1]) THEN @ + 1 ELSE @ ]
    /\ pre' = f
    /\ pc' = "round"
    /\ UNCHANGED <<dt_ms, keys, ended, scene>>

\* Variant of the round-end test that looks at player1 only.
RoundOver_Player1Only(fs) == fs[1].health <= 0

\* The round-end test of main().
RoundOver(fs) == fs[1].health <= 0 \/ fs[2].health <= 0

\* if player1.health <= 0 or player2.health <= 0: delay(800); reset_game(...)
RoundCheck ==
    /\ pc = "round"
    /\ IF RoundOver(f)
       THEN /\ f' = reset_game(f)
            /\ hits' = [ i \in Players |-> 0 ]
            /\ ended' = "reset"
       ELSE /\ ended' = "plain"
            /\ UNCHANGED <<f, hits>>
    /\ pre' = NoPre
    /\ pc' = "input"
    /\ UNCHANGED <<dt_ms, keys, scene>>

\* pygame.QUIT: running = False; the iteration that saw the event is an ordinary
\* iteration, after which the loop is left.
Quit ==
    /\ pc = "input"
    /\ pc' = "done"
    /\ UNCHANGED <<f, dt_ms, keys, hits, ended, pre, scene>>

\* ---------------------------------------------------------------- inputs
\* The frame times and key snapshots the environment offers.  A frame takes
\* SlowFrame ms, or LongFrame ms (a stalled frame); the iteration after a round
\* reset measures the 800 ms delay of the reset, so it is a long one.
SlowFrame == 80
LongFrame == 816
FrameTimes == {SlowFrame, LongFrame}

K(l, r, j, a) == [left |-> l, right |-> r, jump |-> j, attack |-> a]
Both(k1, k2) == [ i \in Players |-> IF i = 1 THEN k1 ELSE k2 ]

\* Distance between the two left edges; player1's hitbox (facing right) ends at
\* x + FIGHTER_WIDTH + ATTACK_OFFSET, so it reaches player2 once Gap is below that.
Gap(fs) == fs[2].x - fs[1].x
OutOfReach(fs) == Gap(fs) >= FIGHTER_WIDTH + ATTACK_OFFSET

\* "duel": the players walk towards each other until player1 is in reach;
\* player1 strikes (or holds the attack key) at will, walking or standing.
DuelKeys(fs) ==
    { Idle, Both(K(FALSE, FALSE, FALSE, TRUE), NoKeys) } \cup
    ( IF OutOfReach(fs)
      THEN { Both(K(FALSE, TRUE, FALSE, FALSE), K(TRUE, FALSE, FALSE, FALSE)),
             Both(K(FALSE, TRUE, FALSE, TRUE), K(TRUE, FALSE, FALSE, FALSE)) }
      ELSE {} )

\* "brawl": the players walk towards each other until in reach, then strike at
\* the same moments, each at the other.
BrawlKeys(fs) ==
    { Idle, Both(K(FALSE, FALSE, FALSE, TRUE), K(FALSE, FALSE, FALSE, TRUE)) } \cup
    ( IF OutOfReach(fs)
      THEN { Both(K(FALSE, TRUE, FALSE, FALSE), K(TRUE, FALSE, FALSE, FALSE)) }
      ELSE {} )

\* "retreat": the players walk apart, to the walls, and jump, in mirror image.
RetreatKeys ==
    { Both(K(l, FALSE, j, FALSE), K(FALSE, l, j, FALSE)) : l \in BOOLEAN, j \in BOOLEAN }

\* "pace": player1 walks to and fro, holding any combination of left and right,
\* while player2 stands.
PaceKeys ==
    { Both(K(l, r, FALSE, FALSE), NoKeys) : l \in BOOLEAN, r \in BOOLEAN }

KeySets(fs, sc) ==
    IF sc = "duel" THEN DuelKeys(fs)
    ELSE IF sc = "brawl" THEN BrawlKeys(fs)
    ELSE IF sc = "pace" THEN PaceKeys
    ELSE RetreatKeys

Frame ==
    \E k \in KeySets(f, scene), d \in FrameTimes :
        /\ ended = "reset" => d >= ROUND_DELAY
        /\ HandleInput(k, d)

Next == Frame \/ ApplyPhysics \/ Combat \/ RoundCheck \/ Quit

Spec == Init /\ [][Next]_vars

\* ---------------------------------------------------------------- properties
\* The hitbox of fs[a] overlaps the body of fs[d] (both as the combat loop sees them).
Overlaps(fs, a, d) ==
    /\ get_attack_rect(fs[a]).some
    /\ colliderect(get_attack_rect(fs[a]).r, BodyRect(fs[d]))

\* C1: between the start of an attack (attack_timer set to ATTACK_DURATION) and
\* the return of attack_timer to 0, the attacker's hit is applied at most once.
C1_AtMostOneHit == \A i \in Players : hits[i] <= 1

\* The hitbox still overlaps the defender in a later combat pass of the same
\* activation, after the hit has been applied.
C1_Witness ==
    /\ pc = "round"
    /\ hits[1] = 1
    /\ pre[1].attack_hit
    /\ Overlaps(pre, 1, 2)
    /\ pre[2].health = f[2].health

\* C2: in every reachable state each fighter's health is within 0..100.
C2_HealthBound == \A i \in Players : 0 <= f[i].health /\ f[i].health <= 100

\* A hit on a fighter with less than ATTACK_DAMAGE health left has been resolved.
C2_Witness ==
    /\ pc = "round"
    /\ pre[2].health > 0
    /\ pre[2].health < ATTACK_DAMAGE
    /\ f[2].health = 0

\* C3: handle_input starts an attack only when attack_timer <= 0 and
\* cooldown_timer <= 0; with either timer running, a call with the attack key
\* held leaves attack_timer, cooldown_timer and attack_hit unchanged.
C3_CooldownGating ==
    [][ (pc = "input" /\ pc' = "physics") =>
        \A i \in Players :
            LET same == /\ f'[i].attack_timer = f[i].attack_timer
                        /\ f'[i].cooldown_timer = f[i].cooldown_timer
                        /\ f'[i].attack_hit = f[i].attack_hit
                free == f[i].attack_timer <= 0 /\ f[i].cooldown_timer <= 0
            IN  /\ (keys'[i].attack /\ ~free) => same
                /\ ~same => (keys'[i].attack /\ free)
                /\ (keys'[i].attack /\ free) =>
                       /\ f'[i].attack_timer = ATTACK_DURATION
                       /\ f'[i].cooldown_timer = ATTACK_COOLDOWN
                       /\ ~f'[i].attack_hit ]_vars

\* handle_input has run with the attack key held while only the cooldown runs.
C3_Witness ==
    /\ pc = "physics"
    /\ keys[1].attack
    /\ f[1].attack_timer = 0
    /\ f[1].cooldown_timer > 0

\* The fixed state the round reset leaves fighter i in, as the claims spell it out.
AtStart(p, i) ==
    /\ 4 * p.x = (IF i = 1 THEN WIDTH ELSE 3 * WIDTH) - 2 * FIGHTER_WIDTH
    /\ p.y = (FLOOR_Y - FIGHTER_HEIGHT) * Scale
    /\ p.vx = 0 /\ p.vy = 0
    /\ p.attack_timer = 0 /\ p.cooldown_timer = 0
    /\ ~p.attack_hit
    /\ p.health = 100
    /\ p.facing = 1

\* C4: a tick that finds a fighter at health <= 0 after physics and combat
\* resets both fighters in that same tick, to the start state; no tick ends with
\* a fighter at health 0.
C4_RoundReset ==
    /\ [][ (pc = "round" /\ (f[1].health <= 0 \/ f[2].health <= 0)) =>
            (pc' = "input" /\ \A i \in Players : AtStart(f'[i], i)) ]_vars
    /\ [](pc \in {"input", "done"} => \A i \in Players : f[i].health > 0)

\* A tick has ended with the round reset.
C4_Witness ==
    /\ pc = "input"
    /\ ended = "reset"
    /\ \A i \in Players : AtStart(f[i], i)

\* A fatal hit was resolved in the combat loop just run.
Fatal == \E i \in Players : pre[i].health > 0 /\ f[i].health <= 0

\* C5 as stated: the reset comes on the tick after the one that resolved the
\* fatal hit, so the tick of the fatal hit ends without it.
C5_ResetOnNextTick ==
    [][ (pc = "round" /\ Fatal) => ended' # "reset" ]_vars

\* C5 as amended: the reset comes in the tick that resolved the fatal hit; a
\* fighter is at health <= 0 only between that hit and the round check of the
\* same tick.
C5_ResetInSameTick ==
    /\ [][ (pc = "round" /\ Fatal) =>
            (ended' = "reset" /\ pc' = "input" /\ \A i \in Players : AtStart(f'[i], i)) ]_vars
    /\ []((\E i \in Players : f[i].health <= 0) => (pc = "round" /\ Fatal))

\* The ninth hit on player2 has just been resolved.
C5_Witness ==
    /\ pc = "round"
    /\ Fatal
    /\ pre[2].health = 100 - 8 * ATTACK_DAMAGE

\* C6: at the end of every tick (also one that ends with a round reset) and
\* after every apply_physics call, y + height <= FLOOR_Y, and on_ground is true
\* exactly when y + height = FLOOR_Y.
C6_FloorClamp ==
    (pc \in {"combat", "round"} \/ (pc = "input" /\ ended # "none")) =>
        \A i \in Players :
            /\ f[i].y + FIGHTER_HEIGHT * Scale <= FLOOR_Y * Scale
            /\ f[i].on_ground <=> (f[i].y + FIGHTER_HEIGHT * Scale = FLOOR_Y * Scale)

\* C7: each fighter's x is within 20 .. WIDTH - width - 20 after every
\* apply_physics call and at the end of every tick, grounded or airborne.
C7_PositionClamp ==
    \A i \in Players : 20 <= f[i].x /\ f[i].x <= WIDTH - FIGHTER_WIDTH - 20

\* apply_physics has just held both fighters at their walls, in mid-air, while
\* they keep walking outwards.
C7_Witness ==
    /\ pc = "combat"
    /\ f[1].x = 20 /\ f[1].vx = -MOVE_SPEED /\ ~f[1].on_ground
    /\ f[2].x = WIDTH - FIGHTER_WIDTH - 20 /\ f[2].vx = MOVE_SPEED /\ ~f[2].on_ground

\* C8: a combat pass that finds an attacker with an active hitbox, attack_hit
\* false and the hitbox over the defender's body sets attack_hit, takes
\* ATTACK_DAMAGE off the defender's health (not below 0) and sets the defender's
\* velocity to (KNOCKBACK_X * facing, -KNOCKBACK_Y), whatever it was before.
C8_HitEffect ==
    [][ pc = "combat" =>
        \A a \in Players :
            (f[a].attack_timer > 0 /\ ~f[a].attack_hit /\ Overlaps(f, a, Other(a))) =>
                LET d == Other(a)
                IN  /\ f'[a].attack_hit
                    /\ f'[d].health = Max(0, f[d].health - ATTACK_DAMAGE)
                    /\ f'[d].vx = KNOCKBACK_X * f[a].facing
                    /\ Scale * KNOCKBACK_Y + f'[d].vy = 0 ]_vars

\* A hit has been applied to a defender that was rising or falling.
C8_Witness ==
    /\ pc = "round"
    /\ f[1].attack_hit /\ ~pre[1].attack_hit
    /\ pre[2].vy # 0
    /\ f[2].health = pre[2].health - ATTACK_DAMAGE
    /\ f[2].vx = KNOCKBACK_X

\* C9: reset_game leaves each fighter in one fixed state whatever its state
\* before, so applying it twice equals applying it once.
C9_ResetIdempotent ==
    /\ \A i \in Players : AtStart(reset_game(f)[i], i)
    /\ reset_game(reset_game(f)) = reset_game(f)

\* The round reset has been applied to fighters away from the start state in
\* position, velocity, timers, health and facing.
C9_Witness ==
    /\ pc = "input" /\ ended = "reset"
    /\ reset_game(f) = f

\* C10 as stated: for every dt_ms, an apply_physics step that takes attack_timer
\* from above 0 to 0 leaves cooldown_timer above 0 and attack_hit false.
C10_ActiveToCooldown ==
    [][ pc = "physics" =>
        \A i \in Players :
            (f[i].attack_timer > 0 /\ f'[i].attack_timer = 0) =>
                (f'[i].cooldown_timer > 0 /\ ~f'[i].attack_hit) ]_vars

\* C10 as amended: such a step leaves attack_hit false, and leaves
\* cooldown_timer above 0 exactly when dt_ms is less than the attack_timer
\* before the step plus ATTACK_COOLDOWN - ATTACK_DURATION.
C10_ActiveToCooldownShortFrame ==
    [][ pc = "physics" =>
        \A i \in Players :
            (f[i].attack_timer > 0 /\ f'[i].attack_timer = 0) =>
                /\ ~f'[i].attack_hit
                /\ f'[i].cooldown_timer > 0 <=>
                       dt_ms < f[i].attack_timer + ATTACK_COOLDOWN - ATTACK_DURATION ]_vars

\* An attack that had hit has just run out in a short frame, into the cooldown.
C10_Witness ==
    /\ pc = "combat"
    /\ f[1].attack_timer = 0
    /\ f[1].cooldown_timer > 0
    /\ f[1].cooldown_timer + SlowFrame > ATTACK_COOLDOWN - ATTACK_DURATION
    /\ f[2].health < 100

\* Fighter a's hit test succeeds on the fighters fs as they enter the combat loop.
HitDue(fs, a) ==
    fs[a].attack_timer > 0 /\ ~fs[a].attack_hit /\ Overlaps(fs, a, Other(a))

\* C11: the combat loop tests player1 -> player2 and then player2 -> player1 in
\* every tick; when both tests succeed on entry, both hits are applied in that
\* tick: both fighters lose ATTACK_DAMAGE health, both get attack_hit, and the
\* first hit does not cancel the second.
C11_DoubleHit ==
    [][ (pc = "combat" /\ HitDue(f, 1) /\ HitDue(f, 2)) =>
        \A i \in Players :
            /\ f'[i].attack_hit
            /\ f'[i].attack_timer = f[i].attack_timer
            /\ f'[i].health = Max(0, f[i].health - ATTACK_DAMAGE)
            /\ f'[i].vx = KNOCKBACK_X * f[Other(i)].facing ]_vars

\* Both fighters have hit each other in the combat loop just run.
C11_Witness ==
    /\ pc = "round"
    /\ \A i \in Players :
          /\ ~pre[i].attack_hit /\ f[i].attack_hit
          /\ f[i].health = pre[i].health - ATTACK_DAMAGE

\* C12: handle_input starts a jump (vy = -JUMP_FORCE, on_ground cleared at once)
\* exactly when the jump key is held and on_ground is true; a fighter that
\* starts a jump rests on the floor; on_ground becomes true again only in
\* apply_physics, so an airborne fighter cannot jump before it has landed.
C12_NoDoubleJump ==
    /\ [][ (pc = "input" /\ pc' = "physics") =>
            \A i \in Players :
                LET jumps == keys'[i].jump /\ f[i].on_ground
                IN  /\ jumps => /\ f'[i].vy = -JUMP_FORCE * Scale
                                /\ ~f'[i].on_ground
                                /\ f[i].y + FIGHTER_HEIGHT * Scale = FLOOR_Y * Scale
                    /\ ~jumps => /\ f'[i].vy = f[i].vy
                                 /\ f'[i].on_ground = f[i].on_ground
                    /\ f'[i].y = f[i].y ]_vars
    /\ [][ \A i \in Players :
              (~f[i].on_ground /\ f'[i].on_ground) => pc = "physics" ]_vars

\* handle_input has run with the jump key held on a fighter in mid-air, and
\* has left its velocity alone.
C12_Witness ==
    /\ pc = "physics"
    /\ keys[1].jump
    /\ ~f[1].on_ground
    /\ f[1].y + FIGHTER_HEIGHT * Scale < FLOOR_Y * Scale
    /\ f[1].vy # -JUMP_FORCE * Scale

\* C13: apply_physics and the combat loop (being hit included) leave facing
\* unchanged, and so does a round check that does not reset; handle_input sets
\* facing to +1 if right is held (also with left), to -1 if only left is held,
\* and leaves it if neither is.  So a tick without round reset ends with the
\* facing its keys dictate.
C13_Facing ==
    [][ \A i \in Players :
          /\ (pc = "input" /\ pc' = "physics") =>
                 f'[i].facing = IF keys'[i].right THEN 1
                                ELSE IF keys'[i].left THEN -1
                                ELSE f[i].facing
          /\ (pc \in {"physics", "combat"} \/ (pc = "round" /\ ended' = "plain")) =>
                 f'[i].facing = f[i].facing ]_vars

\* handle_input has run with left and right both held, on a fighter that had
\* walked left before, and it faces right.
C13_Witness ==
    /\ pc = "physics"
    /\ keys[1].left /\ keys[1].right
    /\ f[1].x < StartX(1)
    /\ f[1].facing = 1
    /\ f[1].vx = MOVE_SPEED

\* C14: in every state -- so after every apply_physics call and at the end of
\* every tick -- a fighter whose attack_timer is 0 has attack_hit false
\* (attack_hit true implies attack_timer > 0); and every step that starts an
\* attack leaves attack_hit false.
C14_HitFlagFollowsTimer ==
    /\ [](\A i \in Players : f[i].attack_timer = 0 => ~f[i].attack_hit)
    /\ [][ \A i \in Players :
              (f'[i].attack_timer > f[i].attack_timer) => ~f'[i].attack_hit ]_vars

\* apply_physics has just ended player1's first attack, which had landed its
\* hit, and the flag is clear again.
C14_Witness ==
    /\ pc = "combat"
    /\ f[1].attack_timer = 0
    /\ f[1].cooldown_timer > 0
    /\ f[1].cooldown_timer + SlowFrame > ATTACK_COOLDOWN - ATTACK_DURATION
    /\ f[2].health = 100 - ATTACK_DAMAGE
    /\ ~f[1].attack_hit

\* C15: get_attack_rect returns no hitbox exactly when attack_timer <= 0;
\* otherwise a box of width 50 and height (height - 10) whose top is 5 below the
\* top of the fighter's body, and the box for facing -1 is the mirror image of
\* the box for facing +1 about the vertical centre line of the body
\* (x + width / 2), at every position the fighters reach.
C15_HitboxDerivation ==
    \A i \in Players :
        LET p  == f[i]
            a  == get_attack_rect(p)
            rR == get_attack_rect([ p EXCEPT !.facing = 1 ]).r
            rL == get_attack_rect([ p EXCEPT !.facing = -1 ]).r
        IN  /\ a.some <=> p.attack_timer > 0
            /\ a.some =>
                  /\ a.r.w = 50
                  /\ a.r.h = FIGHTER_HEIGHT - 10
                  /\ a.r.y = BodyRect(p).y + 5
                  /\ rL.y = rR.y /\ rL.w = rR.w /\ rL.h = rR.h
                  /\ rL.x = 2 * p.x + FIGHTER_WIDTH - (rR.x + rR.w)
                  /\ rL.x + rL.w = 2 * p.x + FIGHTER_WIDTH - rR.x

\* Both fighters attack, one facing right and one facing left, one of them in
\* the air.
C15_Witness ==
    /\ pc = "combat"
    /\ f[1].attack_timer > 0 /\ f[1].facing = 1
    /\ f[2].attack_timer > 0 /\ f[2].facing = -1
    /\ \E i \in Players : ~f[i].on_ground

\* C16 (as stated): an active hitbox lies beyond the leading edge: for facing +1
\* its left edge is at or right of x + width, for facing -1 its right edge is at
\* or left of x, so it never overlaps the attacker's own body.
C16_BeyondLeadingEdge ==
    \A i \in Players :
        LET p == f[i]
            a == get_attack_rect(p)
        IN  a.some =>
              /\ p.facing = 1 => a.r.x >= p.x + FIGHTER_WIDTH
              /\ p.facing = -1 => a.r.x + a.r.w <= p.x
              /\ ~colliderect(a.r, BodyRect(p))

\* C16 (amended): an active hitbox reaches ATTACK_OFFSET beyond the leading
\* edge and starts ATTACK_WIDTH - ATTACK_OFFSET inside the body: for facing +1
\* it spans [x + width - 20, x + width + 30], for facing -1 [x - 30, x + 20];
\* it always overlaps the attacker's own body.
C16_StraddlesLeadingEdge ==
    \A i \in Players :
        LET p == f[i]
            a == get_attack_rect(p)
            inside == ATTACK_WIDTH - ATTACK_OFFSET
        IN  a.some =>
              /\ p.facing = 1 =>
                    /\ a.r.x = p.x + FIGHTER_WIDTH - inside
                    /\ a.r.x + a.r.w = p.x + FIGHTER_WIDTH + ATTACK_OFFSET
              /\ p.facing = -1 =>
                    /\ a.r.x = p.x - ATTACK_OFFSET
                    /\ a.r.x + a.r.w = p.x + inside
              /\ colliderect(a.r, BodyRect(p))

\* Hitboxes of both facings are out, each overlapping its owner's body.
C16_Witness ==
    /\ pc = "combat"
    /\ \E i \in Players : f[i].facing = 1 /\ Overlaps(f, i, i)
    /\ \E i \in Players : f[i].facing = -1 /\ Overlaps(f, i, i)

\* The vx that handle_input derives from a key snapshot.
KeyVx(k) == IF k.right THEN MOVE_SPEED ELSE IF k.left THEN -MOVE_SPEED ELSE 0

\* C17: horizontal knockback never displaces the defender.  handle_input
\* overwrites vx with 0 or +/-MOVE_SPEED as the keys say and leaves x alone;
\* apply_physics moves x by exactly that vx, clamped to the arena; the combat
\* loop and a round check without reset leave x alone.  So over a tick without
\* round reset x changes by at most MOVE_SPEED, as that tick's left/right keys
\* and the clamp dictate.
C17_KnockbackNeverMovesX ==
    [][ \A i \in Players :
          /\ (pc = "input" /\ pc' = "physics") =>
                 /\ f'[i].x = f[i].x
                 /\ f'[i].vx = KeyVx(keys'[i])
          /\ pc = "physics" =>
                 /\ f[i].vx = KeyVx(keys[i])
                 /\ f'[i].x = clamp(f[i].x + KeyVx(keys[i]), 20, WIDTH - FIGHTER_WIDTH - 20)
                 /\ f'[i].x - f[i].x <= MOVE_SPEED
                 /\ f[i].x - f'[i].x <= MOVE_SPEED
          /\ (pc = "combat" \/ (pc = "round" /\ ended' = "plain")) =>
                 f'[i].x = f[i].x ]_vars

\* Player2 was hit from the ground in the tick before, and the physics of this
\* tick has run on it with vx 0: the knockback vx is gone, the knockback vy is
\* not.
C17_Witness ==
    /\ pc = "combat"
    /\ ~f[2].on_ground
    /\ f[2].vy = GRAVITY - KNOCKBACK_Y * Scale
    /\ f[2].vx = 0
    /\ f[2].health < 100

\* The loop of main() while no QUIT event arrives: every tick runs to its end
\* and the next one starts.
TickNext == Frame \/ ApplyPhysics \/ Combat \/ RoundCheck

SpecLive == Init /\ [][TickNext]_vars /\ WF_vars(TickNext)

\* C18: an airborne fighter always lands: as long as ticks keep executing,
\* under every input sequence (repeated knockback hits and round resets
\* included), each fighter is on the ground again after finitely many ticks.
C18_AlwaysLands == \A i \in Players : []<>(f[i].on_ground)

\* Player2 is hit while in the air.
C18_Witness ==
    /\ pc = "round"
    /\ ~pre[2].on_ground
    /\ f[2].health < pre[2].health
    /\ f[2].vy = -KNOCKBACK_Y * Scale

\* The combat loop with its two passes in the other order.
ReverseOrder(fs) == Resolve(Resolve(fs, 2, 1), 1, 2)

\* A pass (a, d) changes at most d's health, vx, vy and a's attack_hit.
TouchesOnlyHitFields(fs, a, d) ==
    LET g == Resolve(fs, a, d)
    IN  /\ g[a] = [ fs[a] EXCEPT !.attack_hit = g[a].attack_hit ]
        /\ g[d] = [ fs[d] EXCEPT !.health = g[d].health, !.vx = g[d].vx, !.vy = g[d].vy ]

\* C19: combat resolution is order-independent: for the fighters of every
\* reachable state (those entering the combat loop included), resolving
\* (player1 -> player2) then (player2 -> player1) gives the same two fighters
\* as resolving (player2 -> player1) then (player1 -> player2); a pass changes
\* only the defender's health, vx, vy and the attacker's attack_hit.
C19_OrderIndependent ==
    /\ CombatResult(f) = ReverseOrder(f)
    /\ TouchesOnlyHitFields(f, 1, 2)
    /\ TouchesOnlyHitFields(f, 2, 1)

\* The combat loop has just resolved a hit in each direction, and its result is
\* that of the reversed order.
C19_Witness ==
    /\ pc = "round"
    /\ f[1].health < pre[1].health
    /\ f[2].health < pre[2].health
    /\ f = ReverseOrder(pre)

\* C20: timer coupling: in every reachable state both timers are >= 0,
\* attack_timer <= cooldown_timer, and while attack_timer > 0 the cooldown is
\* attack_timer + (ATTACK_COOLDOWN - ATTACK_DURATION); so an active attack
\* implies an active cooldown.
C20_TimerCoupling ==
    \A i \in Players :
        /\ 0 <= f[i].attack_timer
        /\ f[i].attack_timer <= f[i].cooldown_timer
        /\ f[i].attack_timer > 0 =>
              /\ f[i].cooldown_timer = f[i].attack_timer + (ATTACK_COOLDOWN - ATTACK_DURATION)
              /\ f[i].cooldown_timer > 0

\* apply_physics has run down part of player1's attack, and the cooldown with it.
C20_Witness ==
    /\ pc = "combat"
    /\ 0 < f[1].attack_timer
    /\ f[1].attack_timer < ATTACK_DURATION
    /\ f[1].cooldown_timer < ATTACK_COOLDOWN

====
